---- MODULE Spec2Model ----
(***************************************************************************)
(* Model of nba_tui (src/src/main.rs, src/src/positions.rs): the draft     *)
(* state held by App, the key handlers of run_app, App::filter_players,    *)
(* App::save_players and the roster-slot report built by ui in Listing.    *)
(*                                                                         *)
(* A Rust String is a sequence of one-character strings; Option<usize> is  *)
(* the empty sequence (None) or a one-element sequence (Some(n)); a Vec is *)
(* a sequence (1-based here, 0-based in the code).                         *)
(***************************************************************************)
EXTENDS Integers, Sequences, FiniteSets, TLC

VARIABLES
    all_players,        \* App.all_players: the catalog, fixed after main loads it
    input,              \* App.input: the query text
    input_mode,         \* App.input_mode
    my_players,         \* App.my_players
    other_players,      \* App.other_players
    filtered_players,   \* App.filtered_players
    selected_player,    \* App.selected_player: Option<usize>
    candidate_player,   \* App.candidate_player
    selected_position,  \* App.selected_position
    my_file,            \* contents of my_players.json
    other_file,         \* contents of other_players.json
    status,             \* run_app: "running", "quit" (return Ok) or "panicked"
    slots,              \* the slot list the Listing report is built for
    filled_slots        \* ui: filled_slots of the last Listing frame

vars == << all_players, input, input_mode, my_players, other_players,
           filtered_players, selected_player, candidate_player,
           selected_position, my_file, other_file, status, slots,
           filled_slots >>

-----------------------------------------------------------------------------
(* Bounds of the model *)

\* longest query text the model types character by character
MaxInputLen == 2
\* largest cursor value followed when the cursor runs past the list
MaxSelected == 3
\* largest catalog the filter is applied to (more than the 8 it returns)
MaxCatalog == 12
\* longest drafted list the slot report is built for
MaxDrafted == 3

-----------------------------------------------------------------------------
(* Position (positions.rs) *)

Positions == {"ANY", "PG", "SG", "SF", "PF", "C", "F", "G", "TALL", "SHORT"}

\* does_position_belong with F listed among the groups of C
does_position_belong_CenterIsForward(self, group) ==
    CASE self = "PG" -> group \in {"PG", "G", "SHORT", "ANY"}
      [] self = "SG" -> group \in {"SG", "G", "SHORT", "ANY"}
      [] self = "SF" -> group \in {"SF", "F", "TALL", "ANY"}
      [] self = "PF" -> group \in {"PF", "F", "TALL", "ANY"}
      [] self = "C"  -> group \in {"C", "F", "TALL", "ANY"}
      [] OTHER -> FALSE

does_position_belong(self, group) ==
    CASE self = "PG" -> group \in {"PG", "G", "SHORT", "ANY"}
      [] self = "SG" -> group \in {"SG", "G", "SHORT", "ANY"}
      [] self = "SF" -> group \in {"SF", "F", "TALL", "ANY"}
      [] self = "PF" -> group \in {"PF", "F", "TALL", "ANY"}
      [] self = "C"  -> group \in {"C", "TALL", "ANY"}
      [] OTHER -> FALSE

get_all_positions ==
    << "ANY", "PG", "SG", "SF", "PF", "C", "F", "G", "TALL", "SHORT" >>

\* the match of KeyCode::Right with the arm of TALL going to ANY
RightOf_SkipsShort(p) ==
    CASE p = "ANY" -> "PG"
      [] p = "PG" -> "SG"
      [] p = "SG" -> "SF"
      [] p = "SF" -> "PF"
      [] p = "PF" -> "C"
      [] p = "C" -> "F"
      [] p = "F" -> "G"
      [] p = "G" -> "TALL"
      [] p = "TALL" -> "ANY"
      [] p = "SHORT" -> "ANY"

\* run_app, KeyCode::Right: the match on app.selected_position
RightOf(p) ==
    CASE p = "ANY" -> "PG"
      [] p = "PG" -> "SG"
      [] p = "SG" -> "SF"
      [] p = "SF" -> "PF"
      [] p = "PF" -> "C"
      [] p = "C" -> "F"
      [] p = "F" -> "G"
      [] p = "G" -> "TALL"
      [] p = "TALL" -> "SHORT"
      [] p = "SHORT" -> "ANY"

\* run_app, KeyCode::Left: the match on app.selected_position
LeftOf(p) ==
    CASE p = "ANY" -> "SHORT"
      [] p = "PG" -> "ANY"
      [] p = "SG" -> "PG"
      [] p = "SF" -> "SG"
      [] p = "PF" -> "SF"
      [] p = "C" -> "PF"
      [] p = "F" -> "C"
      [] p = "G" -> "F"
      [] p = "TALL" -> "G"
      [] p = "SHORT" -> "TALL"

-----------------------------------------------------------------------------
(* Strings *)

UpperLetters == << "A", "B", "C", "D", "E", "F", "G", "H", "I", "J", "K", "L", "M",
                   "N", "O", "P", "Q", "R", "S", "T", "U", "V", "W", "X", "Y", "Z" >>
LowerLetters == << "a", "b", "c", "d", "e", "f", "g", "h", "i", "j", "k", "l", "m",
                   "n", "o", "p", "q", "r", "s", "t", "u", "v", "w", "x", "y", "z" >>

\* u8::to_ascii_lowercase on one character
LowerChar(c) ==
    IF \E i \in DOMAIN UpperLetters : UpperLetters[i] = c
    THEN LowerLetters[CHOOSE i \in DOMAIN UpperLetters : UpperLetters[i] = c]
    ELSE c

\* str::to_ascii_lowercase
to_ascii_lowercase(s) == [i \in DOMAIN s |-> LowerChar(s[i])]

\* str::contains(&str): substring search
contains(hay, needle) ==
    \E i \in 0 .. (Len(hay) - Len(needle)) :
        SubSeq(hay, i + 1, i + Len(needle)) = needle

\* char::is_ascii_digit
is_ascii_digit(c) == c \in {"0", "1", "2", "3", "4", "5", "6", "7", "8", "9"}

\* char::to_digit(10) of an ASCII digit
to_digit(c) ==
    CASE c = "0" -> 0 [] c = "1" -> 1 [] c = "2" -> 2 [] c = "3" -> 3
      [] c = "4" -> 4 [] c = "5" -> 5 [] c = "6" -> 6 [] c = "7" -> 7
      [] c = "8" -> 8 [] c = "9" -> 9

\* Vec<String>::contains
VecContains(v, x) == \E i \in DOMAIN v : v[i] = x

\* Option<usize>
None == << >>
Some(n) == << n >>

-----------------------------------------------------------------------------
(* App *)

\* filter_players: .take(8)
FilterCap == 8

Min(a, b) == IF a < b THEN a ELSE b

\* filter_players without the test against other_players
filter_players_KeepsOthers(all, inp, mine, other, pos) ==
    LET Keep(p) ==
            /\ contains(to_ascii_lowercase(p.name), to_ascii_lowercase(inp))
            /\ ~VecContains(mine, p.name)
            /\ \E i \in DOMAIN p.position : does_position_belong(p.position[i], pos)
        kept == SelectSeq(all, Keep)
    IN  [i \in 1 .. Min(FilterCap, Len(kept)) |-> kept[i].name]

\* filter_players comparing the name and the query without to_ascii_lowercase
filter_players_CaseSensitive(all, inp, mine, other, pos) ==
    LET Keep(p) ==
            /\ contains(p.name, inp)
            /\ ~VecContains(mine, p.name)
            /\ ~VecContains(other, p.name)
            /\ \E i \in DOMAIN p.position : does_position_belong(p.position[i], pos)
        kept == SelectSeq(all, Keep)
    IN  [i \in 1 .. Min(FilterCap, Len(kept)) |-> kept[i].name]

\* App::filter_players, as a function of the fields it reads
filter_players(all, inp, mine, other, pos) ==
    LET Keep(p) ==
            /\ contains(to_ascii_lowercase(p.name), to_ascii_lowercase(inp))
            /\ ~VecContains(mine, p.name)
            /\ ~VecContains(other, p.name)
            /\ \E i \in DOMAIN p.position : does_position_belong(p.position[i], pos)
        kept == SelectSeq(all, Keep)
    IN  [i \in 1 .. Min(FilterCap, Len(kept)) |-> kept[i].name]


\* App::get_player(...).unwrap(): the first catalog player of that name
get_player(all, name) ==
    all[CHOOSE i \in DOMAIN all :
            /\ all[i].name = name
            /\ \A j \in 1 .. (i - 1) : all[j].name # name]

\* App::slots
App_slots ==
    << << "C", 3 >>, << "PF", 1 >>, << "PG", 1 >>, << "SG", 1 >>,
       << "SF", 1 >>, << "G", 1 >>, << "F", 1 >>, << "ANY", 7 >> >>

\* ui, Listing: the marker pushed for unfilled capacity, "Empty".to_string()
EmptyName == << "E", "m", "p", "t", "y" >>

(* A roster file: missing, holding a JSON list of names, or cut short by a *)
(* write that failed after File::create truncated it.                      *)
Missing == [state |-> "missing", names |-> << >>]
Valid(names) == [state |-> "valid", names |-> names]
Truncated == [state |-> "truncated", names |-> << >>]

\* save_players opening the file for append instead of File::create
save_players_Appends(players, file) ==
    { [ok |-> TRUE, file |-> Valid(file.names \o players)],
      [ok |-> FALSE, file |-> file],
      [ok |-> FALSE, file |-> Truncated] }

\* App::save_players: every outcome of one call, as (result is Ok, file afterwards)
save_players(players, file) ==
    { [ok |-> TRUE, file |-> Valid(players)],     \* create, to_string, write_all succeed
      [ok |-> FALSE, file |-> file],              \* File::create fails
      [ok |-> FALSE, file |-> Truncated] }        \* write_all fails after create

\* the result of save_players dropped instead of unwrapped
UnwrapIgnored(r) == FALSE

\* .unwrap() on the result of save_players panics on Err
UnwrapPanics(r) == ~r.ok

-----------------------------------------------------------------------------
(* ui, Listing: the roster-slot report *)

\* the test without the search of filled_slots for the player's name
SlotTakes_Reuses(filled, player, position) ==
    \E p \in DOMAIN player.position :
        does_position_belong(player.position[p], position)

\* the test without the eligibility of the player for the slot's group
SlotTakes_Ineligible(filled, player, position) ==
    ~\E x \in DOMAIN filled : filled[x][2] = player.name

\* the test of lines 501-502: not yet in filled_slots, and eligible for the slot
SlotTakes(filled, player, position) ==
    /\ ~\E x \in DOMAIN filled : filled[x][2] = player.name
    /\ \E p \in DOMAIN player.position :
           does_position_belong(player.position[p], position)

\* the inner for loop over app.my_players, from index i (1-based) on;
\* yields << filled_slots, slots_left >>
RECURSIVE PlayerLoop(_, _, _, _, _, _)
PlayerLoop(all, mine, position, filled, slots_left, i) ==
    IF i > Len(mine) THEN << filled, slots_left >>
    ELSE LET player == get_player(all, mine[i])
             take == SlotTakes(filled, player, position) /\ slots_left > 0
             filled2 == IF take
                        THEN Append(filled, << position, player.name, player.position >>)
                        ELSE filled
             left2 == IF take THEN slots_left - 1 ELSE slots_left
         IN  IF left2 = 0 THEN << filled2, left2 >>
             ELSE PlayerLoop(all, mine, position, filled2, left2, i + 1)

\* the while loop pushing "Empty" entries
RECURSIVE PadEmpty(_, _, _)
PadEmpty(filled, position, slots_left) ==
    IF slots_left > 0
    THEN PadEmpty(Append(filled, << position, EmptyName, << >> >>), position, slots_left - 1)
    ELSE filled

\* the outer for loop over slots, from slot s on
RECURSIVE SlotLoop(_, _, _, _, _)
SlotLoop(all, mine, sl, filled, s) ==
    IF s > Len(sl) THEN filled
    ELSE LET r == PlayerLoop(all, mine, sl[s][1], filled, sl[s][2], 1)
         IN  SlotLoop(all, mine, sl, PadEmpty(r[1], sl[s][1], r[2]), s + 1)

\* filled_slots as ui builds it for the slot list sl
fill_slots(all, mine, sl) == SlotLoop(all, mine, sl, << >>, 1)


-----------------------------------------------------------------------------
(* The catalogs, keys and persisted files the model draws from *)

Player(name, position) == [name |-> name, position |-> position]

\* data.json holding the one player "Joe Smith" (positions [PG])
JoeSmith == << "J", "o", "e", " ", "S", "m", "i", "t", "h" >>
JoeCatalog == << Player(JoeSmith, << "PG" >>) >>

\* data.json holding three players; "a" and "B" are substrings of "ab" up to case
DraftCatalog ==
    << Player(<< "a", "b" >>, << "C" >>),
       Player(<< "B" >>, << "PF", "SF" >>),
       Player(<< "a" >>, << "PG" >>) >>

\* two players, the name of the first a part of the name of the second
PairCatalog ==
    << Player(<< "a" >>, << "PG" >>),
       Player(<< "a", "B" >>, << "SG" >>) >>

Catalogs == { JoeCatalog, DraftCatalog, PairCatalog }

Digits == {"0", "1", "2", "3", "4", "5", "6", "7", "8", "9"}
\* the characters typed into the query: any KeyCode::Char(c) that is no digit
TypedChars == {"a", "B", "q", "s"}

\* what the two roster files may hold when the process starts: lists an
\* earlier session saved for this catalog
StartFiles(all) ==
    LET first == all[1].name
        last == all[Len(all)].name
    IN  { << Missing, Missing >>,
          IF Len(all) > 1
          THEN << Valid(<< first >>), Valid(<< last >>) >>
          ELSE << Valid(<< first >>), Missing >> }

\* main: the first command-line argument
Args == {"", "load", "delete"}

-----------------------------------------------------------------------------
(* main: App::default, the catalog, and the load / delete argument *)

Init ==
    /\ all_players \in Catalogs
    /\ \E arg \in Args : \E f \in StartFiles(all_players) :
          /\ my_players = IF arg = "load" /\ f[1].state = "valid" THEN f[1].names ELSE << >>
          /\ other_players = IF arg = "load" /\ f[2].state = "valid" THEN f[2].names ELSE << >>
          /\ my_file = IF arg = "delete" THEN Missing ELSE f[1]
          /\ other_file = IF arg = "delete" THEN Missing ELSE f[2]
    /\ input = << >>
    /\ input_mode = "Idle"
    /\ filtered_players = << >>
    /\ selected_player = None
    /\ candidate_player = << >>
    /\ selected_position = "ANY"
    /\ status = "running"
    /\ slots = App_slots
    /\ filled_slots = << >>

\* app.filter_players() on the state after the assignments a handler made
Refilter(inp, mine, other, pos) == filter_players(all_players, inp, mine, other, pos)

Rosters == << my_players, other_players, my_file, other_file >>
Fixed == << all_players, slots >>

-----------------------------------------------------------------------------
(* run_app: position-group navigation, lines 216-244 (no mode names these keys) *)

KeyRight ==
    /\ status = "running"
    /\ selected_position' = RightOf(selected_position)
    /\ filtered_players' = Refilter(input, my_players, other_players, RightOf(selected_position))
    /\ UNCHANGED << input, input_mode, selected_player, candidate_player, status,
                    filled_slots, Rosters, Fixed >>

KeyLeft ==
    /\ status = "running"
    /\ selected_position' = LeftOf(selected_position)
    /\ filtered_players' = Refilter(input, my_players, other_players, LeftOf(selected_position))
    /\ UNCHANGED << input, input_mode, selected_player, candidate_player, status,
                    filled_slots, Rosters, Fixed >>

-----------------------------------------------------------------------------
(* run_app: InputMode::Idle, lines 246-258 *)

IdleStartSearch ==
    /\ status = "running" /\ input_mode = "Idle"
    /\ input_mode' = "Searching"
    /\ filtered_players' = Refilter(input, my_players, other_players, selected_position)
    /\ UNCHANGED << input, selected_player, candidate_player, selected_position, status,
                    filled_slots, Rosters, Fixed >>

IdleQuit ==
    /\ status = "running" /\ input_mode = "Idle"
    /\ status' = "quit"
    /\ UNCHANGED << input, input_mode, filtered_players, selected_player, candidate_player,
                    selected_position, filled_slots, Rosters, Fixed >>

\* the next frame is the first one drawn in Listing: ui builds filled_slots
IdleListing ==
    /\ status = "running" /\ input_mode = "Idle"
    /\ input_mode' = "Listing"
    /\ filled_slots' = fill_slots(all_players, my_players, slots)
    /\ UNCHANGED << input, filtered_players, selected_player, candidate_player,
                    selected_position, status, Rosters, Fixed >>

IdleOther ==
    /\ status = "running" /\ input_mode = "Idle"
    /\ UNCHANGED << input, input_mode, filtered_players, selected_player, candidate_player,
                    selected_position, status, filled_slots, Rosters, Fixed >>


-----------------------------------------------------------------------------
(* run_app: InputMode::Searching, lines 259-322 *)

\* a panic unwinds out of run_app: no further event is read
Panic == status' = "panicked"

\* KeyCode::Enter, lines 260-271
SearchingEnter ==
    /\ status = "running" /\ input_mode = "Searching"
    /\ IF selected_player # None
       THEN IF selected_player[1] < Len(filtered_players)
            THEN /\ candidate_player' = filtered_players[selected_player[1] + 1]
                 /\ input_mode' = "Picking"
                 /\ UNCHANGED << input, filtered_players, selected_player, status >>
            ELSE \* filtered_players[selected]: index out of bounds
                 /\ Panic
                 /\ UNCHANGED << input, input_mode, filtered_players, selected_player,
                                 candidate_player >>
       ELSE IF Len(filtered_players) > 0
            THEN /\ selected_player' = Some(0)
                 /\ input' = filtered_players[1]
                 /\ filtered_players' =
                        Refilter(filtered_players[1], my_players, other_players, selected_position)
                 /\ UNCHANGED << input_mode, candidate_player, status >>
            ELSE UNCHANGED << input, input_mode, filtered_players, selected_player,
                              candidate_player, status >>
    /\ UNCHANGED << selected_position, filled_slots, Rosters, Fixed >>

\* Tab placing the cursor without copying the name into the query
SearchingTab_NoLockIn ==
    /\ status = "running" /\ input_mode = "Searching"
    /\ IF Len(filtered_players) > 0
       THEN /\ selected_player' = Some(0)
            /\ UNCHANGED << input, filtered_players >>
       ELSE UNCHANGED << input, filtered_players, selected_player >>
    /\ UNCHANGED << input_mode, candidate_player, selected_position, status,
                    filled_slots, Rosters, Fixed >>

\* Tab copying the name of the last entry of the list instead of the first
SearchingTab_LocksLast ==
    /\ status = "running" /\ input_mode = "Searching"
    /\ IF Len(filtered_players) > 0
       THEN /\ selected_player' = Some(0)
            /\ input' = filtered_players[Len(filtered_players)]
            /\ filtered_players' =
                   Refilter(filtered_players[Len(filtered_players)], my_players,
                            other_players, selected_position)
       ELSE UNCHANGED << input, filtered_players, selected_player >>
    /\ UNCHANGED << input_mode, candidate_player, selected_position, status,
                    filled_slots, Rosters, Fixed >>

\* KeyCode::Tab, lines 272-278
SearchingTab ==
    /\ status = "running" /\ input_mode = "Searching"
    /\ IF Len(filtered_players) > 0
       THEN /\ selected_player' = Some(0)
            /\ input' = filtered_players[1]
            /\ filtered_players' =
                   Refilter(filtered_players[1], my_players, other_players, selected_position)
       ELSE UNCHANGED << input, filtered_players, selected_player >>
    /\ UNCHANGED << input_mode, candidate_player, selected_position, status,
                    filled_slots, Rosters, Fixed >>

\* KeyCode::Up, lines 279-285
SearchingUp ==
    /\ status = "running" /\ input_mode = "Searching"
    /\ selected_player' =
           IF selected_player # None /\ selected_player[1] > 0
           THEN Some(selected_player[1] - 1)
           ELSE selected_player
    /\ UNCHANGED << input, input_mode, filtered_players, candidate_player,
                    selected_position, status, filled_slots, Rosters, Fixed >>

(* KeyCode::Down, lines 286-296.  With a selection and an empty list,      *)
(* filtered_players.len() - 1 underflows a usize: a build with overflow    *)
(* checks panics, a build without them wraps to usize::MAX and the cursor  *)
(* advances.  Both outcomes are taken.                                     *)
SearchingDown ==
    /\ status = "running" /\ input_mode = "Searching"
    /\ IF selected_player # None
       THEN IF Len(filtered_players) = 0
            THEN \/ /\ Panic
                    /\ UNCHANGED selected_player
                 \/ /\ selected_player[1] < MaxSelected
                    /\ selected_player' = Some(selected_player[1] + 1)
                    /\ UNCHANGED status
            ELSE /\ selected_player' =
                        IF selected_player[1] < Len(filtered_players) - 1
                        THEN Some(selected_player[1] + 1)
                        ELSE selected_player
                 /\ UNCHANGED status
       ELSE /\ selected_player' =
                   IF Len(filtered_players) # 0 THEN Some(0) ELSE selected_player
            /\ UNCHANGED status
    /\ UNCHANGED << input, input_mode, filtered_players, candidate_player,
                    selected_position, filled_slots, Rosters, Fixed >>

(* KeyCode::Char(c) with c.is_ascii_digit(), lines 298-304.  For c = 0 the *)
(* test c <= len passes and c - 1 underflows: a panic with overflow checks,*)
(* and without them index usize::MAX, out of bounds: a panic as well.      *)
SearchingDigit ==
    /\ status = "running" /\ input_mode = "Searching"
    /\ \E ch \in Digits :
          /\ is_ascii_digit(ch)
          /\ LET c == to_digit(ch)
             IN  IF c <= Len(filtered_players)
                 THEN IF c >= 1
                      THEN /\ selected_player' = Some(0)
                           /\ input' = filtered_players[c]
                           /\ filtered_players' =
                                  Refilter(filtered_players[c], my_players, other_players,
                                           selected_position)
                           /\ UNCHANGED status
                      ELSE /\ selected_player' = Some(0)
                           /\ Panic
                           /\ UNCHANGED << input, filtered_players >>
                 ELSE UNCHANGED << input, filtered_players, selected_player, status >>
    /\ UNCHANGED << input_mode, candidate_player, selected_position,
                    filled_slots, Rosters, Fixed >>

\* KeyCode::Char(c), c no digit, lines 305-308
SearchingChar ==
    /\ status = "running" /\ input_mode = "Searching"
    /\ Len(input) < MaxInputLen
    /\ \E c \in TypedChars :
          /\ ~is_ascii_digit(c)
          /\ input' = Append(input, c)
          /\ filtered_players' =
                 Refilter(Append(input, c), my_players, other_players, selected_position)
    /\ UNCHANGED << input_mode, selected_player, candidate_player, selected_position,
                    status, filled_slots, Rosters, Fixed >>

\* String::pop
Pop(s) == IF Len(s) = 0 THEN s ELSE SubSeq(s, 1, Len(s) - 1)

\* Backspace popping the query without the call of filter_players
SearchingBackspace_NoFilter ==
    /\ status = "running" /\ input_mode = "Searching"
    /\ input' = Pop(input)
    /\ UNCHANGED << filtered_players, input_mode, selected_player, candidate_player,
                    selected_position, status, filled_slots, Rosters, Fixed >>

\* KeyCode::Backspace, lines 310-313
SearchingBackspace ==
    /\ status = "running" /\ input_mode = "Searching"
    /\ input' = Pop(input)
    /\ filtered_players' = Refilter(Pop(input), my_players, other_players, selected_position)
    /\ UNCHANGED << input_mode, selected_player, candidate_player, selected_position,
                    status, filled_slots, Rosters, Fixed >>

\* Esc in Searching without app.input.clear()
SearchingEsc_KeepsQuery ==
    /\ status = "running" /\ input_mode = "Searching"
    /\ candidate_player' = << >>
    /\ filtered_players' = Refilter(input, my_players, other_players, selected_position)
    /\ selected_player' = None
    /\ input_mode' = "Idle"
    /\ UNCHANGED << input, selected_position, status, filled_slots, Rosters, Fixed >>

\* Esc in Searching leaving the cursor where it was
SearchingEsc_KeepsSelection ==
    /\ status = "running" /\ input_mode = "Searching"
    /\ candidate_player' = << >>
    /\ input' = << >>
    /\ filtered_players' = Refilter(<< >>, my_players, other_players, selected_position)
    /\ input_mode' = "Idle"
    /\ UNCHANGED << selected_player, selected_position, status, filled_slots, Rosters, Fixed >>

\* KeyCode::Esc, lines 314-320
SearchingEsc ==
    /\ status = "running" /\ input_mode = "Searching"
    /\ candidate_player' = << >>
    /\ input' = << >>
    /\ filtered_players' = Refilter(<< >>, my_players, other_players, selected_position)
    /\ selected_player' = None
    /\ input_mode' = "Idle"
    /\ UNCHANGED << selected_position, status, filled_slots, Rosters, Fixed >>

SearchingOther ==
    /\ status = "running" /\ input_mode = "Searching"
    /\ UNCHANGED << input, input_mode, filtered_players, selected_player, candidate_player,
                    selected_position, status, filled_slots, Rosters, Fixed >>


-----------------------------------------------------------------------------
(* run_app: InputMode::Picking, lines 323-350 *)

\* the assignment without its call of filter_players
AfterAssign_NoRefilter(mine, other) ==
    /\ candidate_player' = << >>
    /\ input' = << >>
    /\ filtered_players' = filtered_players
    /\ selected_player' = None
    /\ input_mode' = "Searching"
    /\ UNCHANGED status

\* lines 327-331 and 336-340: what follows a save that returned Ok
AfterAssign(mine, other) ==
    /\ candidate_player' = << >>
    /\ input' = << >>
    /\ filtered_players' = Refilter(<< >>, mine, other, selected_position)
    /\ selected_player' = None
    /\ input_mode' = "Searching"
    /\ UNCHANGED status

\* KeyCode::Char('a') | Char('A') | Enter, lines 324-332
PickingAssignMine ==
    /\ status = "running" /\ input_mode = "Picking"
    /\ my_players' = Append(my_players, candidate_player)
    /\ \E r \in save_players(Append(my_players, candidate_player), my_file) :
          /\ my_file' = r.file
          /\ IF UnwrapPanics(r)
             THEN /\ Panic
                  /\ UNCHANGED << input, input_mode, filtered_players, selected_player,
                                  candidate_player >>
             ELSE AfterAssign(Append(my_players, candidate_player), other_players)
    /\ UNCHANGED << other_players, other_file, selected_position, filled_slots, Fixed >>

\* KeyCode::Char('b') | Char('B'), lines 333-341
PickingAssignOther ==
    /\ status = "running" /\ input_mode = "Picking"
    /\ other_players' = Append(other_players, candidate_player)
    /\ \E r \in save_players(Append(other_players, candidate_player), other_file) :
          /\ other_file' = r.file
          /\ IF UnwrapPanics(r)
             THEN /\ Panic
                  /\ UNCHANGED << input, input_mode, filtered_players, selected_player,
                                  candidate_player >>
             ELSE AfterAssign(my_players, Append(other_players, candidate_player))
    /\ UNCHANGED << my_players, my_file, selected_position, filled_slots, Fixed >>

\* Esc in Picking leaving the candidate in place
PickingEsc_KeepsCandidate ==
    /\ status = "running" /\ input_mode = "Picking"
    /\ input' = << >>
    /\ filtered_players' = Refilter(<< >>, my_players, other_players, selected_position)
    /\ selected_player' = None
    /\ input_mode' = "Searching"
    /\ UNCHANGED << candidate_player, selected_position, status, filled_slots, Rosters, Fixed >>

\* KeyCode::Esc, lines 342-348
PickingEsc ==
    /\ status = "running" /\ input_mode = "Picking"
    /\ candidate_player' = << >>
    /\ input' = << >>
    /\ filtered_players' = Refilter(<< >>, my_players, other_players, selected_position)
    /\ selected_player' = None
    /\ input_mode' = "Searching"
    /\ UNCHANGED << selected_position, status, filled_slots, Rosters, Fixed >>

PickingOther ==
    /\ status = "running" /\ input_mode = "Picking"
    /\ UNCHANGED << input, input_mode, filtered_players, selected_player, candidate_player,
                    selected_position, status, filled_slots, Rosters, Fixed >>

-----------------------------------------------------------------------------
(* run_app: InputMode::Listing, lines 351-356 *)

\* 'q' in Listing returning from run_app as 'q' in Idle does
ListingQuit_Exits ==
    /\ status = "running" /\ input_mode = "Listing"
    /\ status' = "quit"
    /\ UNCHANGED << input, input_mode, filtered_players, selected_player, candidate_player,
                    selected_position, filled_slots, Rosters, Fixed >>

\* the next frame is drawn outside Listing and builds no filled_slots
ListingQuit ==
    /\ status = "running" /\ input_mode = "Listing"
    /\ input_mode' = "Idle"
    /\ filled_slots' = << >>
    /\ UNCHANGED << input, filtered_players, selected_player, candidate_player,
                    selected_position, status, Rosters, Fixed >>

ListingOther ==
    /\ status = "running" /\ input_mode = "Listing"
    /\ UNCHANGED << input, input_mode, filtered_players, selected_player, candidate_player,
                    selected_position, status, filled_slots, Rosters, Fixed >>

-----------------------------------------------------------------------------
(* run_app: one iteration of the loop handles one key event *)

Next ==
    \/ KeyRight
    \/ KeyLeft
    \/ IdleStartSearch
    \/ IdleQuit
    \/ IdleListing
    \/ IdleOther
    \/ SearchingEnter
    \/ SearchingTab
    \/ SearchingUp
    \/ SearchingDown
    \/ SearchingDigit
    \/ SearchingChar
    \/ SearchingBackspace
    \/ SearchingEsc
    \/ SearchingOther
    \/ PickingAssignMine
    \/ PickingAssignOther
    \/ PickingEsc
    \/ PickingOther
    \/ ListingQuit
    \/ ListingOther

Spec == Init /\ [][Next]_vars


-----------------------------------------------------------------------------
(* Properties of the draft state machine, checked under Spec *)

Names(v) == { v[i] : i \in DOMAIN v }
NoDuplicates(v) == \A i, j \in DOMAIN v : v[i] = v[j] => i = j
IsPrefix(a, b) == Len(a) <= Len(b) /\ SubSeq(b, 1, Len(a)) = a

(* A panicked state shows App at the point of the panic, in the middle of a *)
(* handler, just before unwinding drops it: it is no state of the machine   *)
(* between two events.  The state claims speak of the states in which App   *)
(* exists: those of the running loop and the one in which run_app returned. *)
Alive == status # "panicked"

FilteredNames == Names(filtered_players)

\* C1: in every reachable state a present selection cursor is a valid index
\* into the current filtered list (0 <= selection < length of the list).
C1_SelectionInRange ==
    (Alive /\ selected_player # None) =>
        /\ 0 <= selected_player[1]
        /\ selected_player[1] < Len(filtered_players)

\* C2: whenever the query text changes by a typed character or a backspace in
\* Searching, or the position group changes by left or right in any mode, the
\* selection cursor is none right after the event; and the cursor goes from
\* none to present only by tab, a digit, confirm without selection or move-down.
C2_CursorClearedOnChange ==
    [][ /\ ( /\ \/ KeyRight
                \/ KeyLeft
                \/ SearchingChar
                \/ SearchingBackspace
             /\ \/ input' # input
                \/ selected_position' # selected_position )
           => selected_player' = None
        /\ (selected_player = None /\ selected_player' # None)
           => (SearchingTab \/ SearchingDigit \/ SearchingEnter \/ SearchingDown)
      ]_vars

\* C3: the 'mine' list and the 'other's' list share no name, neither holds a
\* name twice, and no name of either occurs in the current filtered list,
\* whatever the query text and the position group are.
C3_RostersDisjoint ==
    Alive =>
    /\ NoDuplicates(my_players)
    /\ NoDuplicates(other_players)
    /\ Names(my_players) \cap Names(other_players) = {}
    /\ Names(filtered_players) \cap (Names(my_players) \cup Names(other_players)) = {}

\* both rosters hold a pick while a search with a non-empty query shows candidates
C3_Witness ==
    /\ input_mode = "Searching"
    /\ input # << >>
    /\ selected_position # "ANY"
    /\ filtered_players # << >>
    /\ my_players # << >>
    /\ other_players # << >>

ModeEdges ==
    { << "Idle", "Searching" >>, << "Idle", "Listing" >>, << "Listing", "Idle" >>,
      << "Searching", "Picking" >>, << "Searching", "Idle" >>, << "Picking", "Searching" >> }

\* C4: Idle is the initial mode; the mode changes only along Idle->Searching,
\* Idle->Listing, Listing->Idle, Searching->Picking, Searching->Idle and
\* Picking->Searching; left and right never change the mode; run_app returns
\* (the loop exits) only on the quit event taken in Idle, and no event taken
\* in Searching, Picking or Listing makes it return.
C4_ModeEdgesAndExit ==
    /\ input_mode = "Idle"
    /\ [][ /\ input_mode' # input_mode => << input_mode, input_mode' >> \in ModeEdges
           /\ (KeyRight \/ KeyLeft) => input_mode' = input_mode
           /\ (status' = "quit" /\ status # "quit") => (input_mode = "Idle" /\ IdleQuit)
           /\ input_mode \in {"Searching", "Picking", "Listing"} => status' # "quit"
           /\ status = "quit" => UNCHANGED vars
         ]_vars

\* the loop has exited from Idle after a session that went through Searching and Picking
C4_Witness ==
    /\ status = "quit"
    /\ input_mode = "Idle"
    /\ selected_position # "ANY"
    /\ Len(my_players) + Len(other_players) >= 2

\* C5: a confirm event in Searching moves to Picking exactly when a selection
\* exists, and then the candidate is the name at the selected index of the
\* filtered list; without a selection it acts as select-first (selection 0 and
\* the query set to the first filtered name when the list is non-empty, nothing
\* changed when it is empty), the mode stays Searching and the candidate stays.
C5_Confirm ==
    [][ SearchingEnter =>
          IF selected_player # None
          THEN /\ input_mode' = "Picking"
               /\ selected_player[1] < Len(filtered_players)
               /\ candidate_player' = filtered_players[selected_player[1] + 1]
          ELSE /\ input_mode' = "Searching"
               /\ candidate_player' = candidate_player
               /\ IF filtered_players # << >>
                  THEN selected_player' = Some(0) /\ input' = filtered_players[1]
                  ELSE UNCHANGED vars
      ]_vars

\* C6: both roster lists only ever grow, by one name appended at the end; a
\* name of 'mine' never appears in a later filtered list and is never appended
\* to 'other's', and the same with the two lists exchanged.
C6_PickPermanent ==
    [][ status' # "panicked" =>
        /\ IsPrefix(my_players, my_players') /\ Len(my_players') <= Len(my_players) + 1
        /\ IsPrefix(other_players, other_players')
        /\ Len(other_players') <= Len(other_players) + 1
        /\ \A n \in Names(my_players) :
              /\ n \notin Names(filtered_players')
              /\ other_players' # Append(other_players, n)
        /\ \A n \in Names(other_players) :
              /\ n \notin Names(filtered_players')
              /\ my_players' # Append(my_players, n)
        /\ \A n \in Names(my_players') \cup Names(other_players') :
              n \notin Names(filtered_players')
      ]_vars

\* a further candidate awaits its assignment after picks were committed to both rosters
C6_Witness ==
    /\ input_mode = "Picking"
    /\ my_players # << >>
    /\ other_players # << >>
    /\ candidate_player # << >>

\* C7: after every successful assign-mine the 'mine' file holds exactly the
\* in-memory 'mine' list and the 'other's' file is untouched, and the same
\* with the two exchanged; no other event writes either file; the action
\* moves Picking to Searching with query, candidate and selection cleared and
\* the filtered list recomputed.
C7_AssignPersists ==
    [][ /\ (PickingAssignMine /\ status' = "running") =>
              /\ my_players' = Append(my_players, candidate_player)
              /\ my_file' = Valid(my_players')
              /\ UNCHANGED << other_file, other_players >>
        /\ (PickingAssignOther /\ status' = "running") =>
              /\ other_players' = Append(other_players, candidate_player)
              /\ other_file' = Valid(other_players')
              /\ UNCHANGED << my_file, my_players >>
        /\ ((PickingAssignMine \/ PickingAssignOther) /\ status' = "running") =>
              /\ input_mode' = "Searching"
              /\ input' = << >> /\ candidate_player' = << >> /\ selected_player' = None
              /\ \A i \in DOMAIN all_players :
                    LET p == all_players[i]
                    IN  ( /\ p.name \notin Names(my_players') \cup Names(other_players')
                          /\ \E k \in DOMAIN p.position :
                                 does_position_belong(p.position[k], selected_position) )
                        <=> p.name \in Names(filtered_players')
        /\ my_file' # my_file => PickingAssignMine
        /\ other_file' # other_file => PickingAssignOther
      ]_vars

\* a session started without load over files of an earlier session: the first
\* pick for 'mine' replaced the old 'mine' file and left the 'other's' file alone
C7_Witness ==
    /\ input_mode = "Searching"
    /\ other_players = << >> /\ other_file.state = "valid"
    /\ Len(my_players) = 1 /\ my_players[1] # all_players[1].name
    /\ my_file = Valid(my_players)

\* C8: when the roster file write fails the assignment is aborted as a whole:
\* the machine never goes on, in any mode, with a pick in the in-memory roster
\* that the persisted file does not hold.
C8_NoSilentLoss ==
    Alive =>
        /\ my_players # << >> => my_file = Valid(my_players)
        /\ other_players # << >> => other_file = Valid(other_players)

\* a write failed during an assignment: the pick is in memory, not in the file,
\* and the process has stopped in Picking
C8_Witness ==
    /\ status = "panicked"
    /\ input_mode = "Picking"
    /\ my_players # << >>
    /\ my_players[Len(my_players)] = candidate_player
    /\ ~VecContains(my_file.names, candidate_player)


-----------------------------------------------------------------------------
(* App::filter_players on drawn inputs: the catalog, the query text, the   *)
(* group and the two rosters are drawn; the Idle handler that enters       *)
(* Searching applies the filter to them, and left and right apply it again *)
(* for the neighbouring groups.                                            *)

PlayerPool ==
    << Player(<< "A", "n", "0" >>, << "PG" >>),
       Player(<< "a", "n", "1" >>, << "SG" >>),
       Player(<< "a", "N", "2" >>, << "SF" >>),
       Player(<< "A", "N", "3" >>, << "PF" >>),
       Player(<< "b", "n", "4" >>, << "C" >>),
       Player(<< "a", "n", "5" >>, << "PG", "C" >>),
       Player(<< "A", "n", "6" >>, << "SG", "SF" >>),
       Player(<< "a", "n", "7" >>, << "PF" >>),
       Player(<< "a", "N", "8" >>, << "C" >>),
       Player(<< "A", "N", "9" >>, << "PG" >>),
       Player(<< "a", "n" >>, << "SF" >>),
       Player(<< "N", "a", "n" >>, << "SG", "PF" >>),
       Player(<< "B", "a", "n", "5" >>, << "C" >>) >>

FilterCatalogs == { SubSeq(PlayerPool, 1, n) : n \in 0 .. Min(MaxCatalog, Len(PlayerPool)) }

FilterQueries == { << >>, << "a", "N" >>, << "N" >>, << "n", "5" >>, << "B" >> }

InitFilter ==
    /\ all_players \in FilterCatalogs
    /\ input \in FilterQueries
    /\ selected_position \in Positions
    /\ my_players \in { << >>, << PlayerPool[2].name >>,
                        << PlayerPool[3].name, PlayerPool[1].name >> }
    /\ other_players \in { << >>, << PlayerPool[8].name >> }
    /\ my_file = Missing
    /\ other_file = Missing
    /\ input_mode = "Idle"
    /\ filtered_players = << >>
    /\ selected_player = None
    /\ candidate_player = << >>
    /\ status = "running"
    /\ slots = App_slots
    /\ filled_slots = << >>

NextFilter == IdleStartSearch \/ KeyRight \/ KeyLeft

SpecFilter == InitFilter /\ [][NextFilter]_vars

\* name contains query as a substring, letters compared without regard to case
MatchesQuery(name, query) ==
    \E off \in 0 .. (Len(name) - Len(query)) :
        \A j \in 1 .. Len(query) : LowerChar(name[off + j]) = LowerChar(query[j])

\* the catalog indices of the players the filter is to show
Shown ==
    { i \in DOMAIN all_players :
        /\ MatchesQuery(all_players[i].name, input)
        /\ all_players[i].name \notin Names(my_players) \cup Names(other_players)
        /\ \E k \in DOMAIN all_players[i].position :
               does_position_belong(all_players[i].position[k], selected_position) }

\* C9: the filter result is the first up to 8 players, in catalog order, whose
\* name contains the query as a case-insensitive substring, whose name is in
\* neither drafted list and who have a concrete position belonging to the
\* group: its k-th entry is the k-th such player of the catalog, its length is
\* 8 when more than 8 players match, and the inputs determine it.
C9_FilterResult ==
    input_mode = "Searching" =>
        /\ Len(filtered_players) = Min(8, Cardinality(Shown))
        /\ Cardinality(Shown) > 8 => Len(filtered_players) = 8
        /\ \A k \in DOMAIN filtered_players :
              \E i \in Shown :
                 /\ Cardinality({ j \in Shown : j < i }) = k - 1
                 /\ filtered_players[k] = all_players[i].name

\* more than 8 players match a mixed-case query while both rosters exclude some
C9_Witness ==
    /\ input_mode = "Searching"
    /\ input = << "a", "N" >>
    /\ Cardinality(Shown) > 8
    /\ Len(filtered_players) = 8
    /\ my_players # << >>
    /\ filtered_players[1] # all_players[1].name


-----------------------------------------------------------------------------
(* ui, Listing, on drawn inputs: the slot list and the drafted list are    *)
(* drawn, and the Idle handler that enters Listing has ui build the report.*)

Alice == << "A", "l", "i", "c", "e" >>
Bob == << "B", "o", "b" >>
Cy == << "C", "y" >>
Di == << "D", "i" >>
Ed == << "E", "d" >>
Flo == << "F", "l", "o" >>
Gus == << "G", "u", "s" >>
Hal == << "H", "a", "l" >>

SlotCatalog ==
    << Player(Alice, << "C" >>),
       Player(Bob, << "PF" >>),
       Player(Cy, << "PG", "SG" >>),
       Player(Di, << "SF", "PF" >>),
       Player(Ed, << "C", "PF" >>),
       Player(Flo, << "PF" >>),
       Player(Gus, << "PF" >>),
       Player(Hal, << "PG" >>) >>

SlotLists ==
    { App_slots,
      << << "C", 1 >>, << "ANY", 1 >> >>,
      << << "C", 2 >> >>,
      << << "TALL", 1 >>, << "C", 1 >>, << "G", 0 >>, << "F", 2 >> >>,
      << << "SHORT", 1 >>, << "PF", 1 >>, << "TALL", 1 >> >> }

\* the duplicate-free lists of at most n catalog names
RECURSIVE DraftedLists(_, _)
DraftedLists(all, n) ==
    IF n = 0 THEN { << >> }
    ELSE LET shorter == DraftedLists(all, n - 1)
         IN  shorter \cup
             { Append(d, all[i].name) :
                 d \in { e \in shorter : Len(e) = n - 1 }, i \in DOMAIN all }

InitSlots ==
    /\ all_players = SlotCatalog
    /\ slots \in SlotLists
    /\ my_players \in { d \in DraftedLists(SlotCatalog, MaxDrafted) : NoDuplicates(d) }
    /\ other_players = << >>
    /\ my_file = Missing
    /\ other_file = Missing
    /\ input = << >>
    /\ input_mode = "Idle"
    /\ filtered_players = << >>
    /\ selected_player = None
    /\ candidate_player = << >>
    /\ selected_position = "ANY"
    /\ status = "running"
    /\ filled_slots = << >>

NextSlots == IdleListing \/ ListingQuit

SpecSlots == InitSlots /\ [][NextSlots]_vars

\* the number of report entries before those of slot s
RECURSIVE Offset(_)
Offset(s) == IF s <= 1 THEN 0 ELSE Offset(s - 1) + slots[s - 1][2]

\* the catalog player of that name
PlayerNamed(name) == CHOOSE p \in { all_players[i] : i \in DOMAIN all_players } : p.name = name

\* the indices of the drafted players slot s can still take: eligible for its
\* group and named by no entry of an earlier slot
Takeable(s) ==
    { i \in DOMAIN my_players :
        /\ \A e \in 1 .. Offset(s) : filled_slots[e][2] # my_players[i]
        /\ \E k \in DOMAIN PlayerNamed(my_players[i]).position :
               does_position_belong(PlayerNamed(my_players[i]).position[k], slots[s][1]) }

\* the report without the positions column
Pairs(report) == [e \in DOMAIN report |-> << report[e][1], report[e][2] >>]

\* C10: the report is the one of the greedy algorithm: slots in order, each
\* slot taking, in drafted order, the not yet assigned players eligible for
\* its group until its capacity is used, the rest of the capacity emitted as
\* 'Empty', a player no slot takes left out; slots [(C,1),(ANY,1)] with
\* [Alice(C), Bob(PF)] give [(C,Alice),(ANY,Bob)], and slots [(C,2)] with
\* [Alice(C)] give [(C,Alice),(C,Empty)].
C10_GreedySlots ==
    input_mode = "Listing" =>
        /\ Len(filled_slots) = Offset(Len(slots) + 1)
        /\ \A s \in DOMAIN slots : \A k \in 1 .. slots[s][2] :
              LET entry == filled_slots[Offset(s) + k]
              IN  IF k <= Cardinality(Takeable(s))
                  THEN \E i \in Takeable(s) :
                          /\ Cardinality({ j \in Takeable(s) : j < i }) = k - 1
                          /\ entry = << slots[s][1], my_players[i],
                                        PlayerNamed(my_players[i]).position >>
                  ELSE entry = << slots[s][1], EmptyName, << >> >>
        /\ (slots = << << "C", 1 >>, << "ANY", 1 >> >> /\ my_players = << Alice, Bob >>)
              => Pairs(filled_slots) = << << "C", Alice >>, << "ANY", Bob >> >>
        /\ (slots = << << "C", 2 >> >> /\ my_players = << Alice >>)
              => Pairs(filled_slots) = << << "C", Alice >>, << "C", EmptyName >> >>

\* a report on three slots or more that holds a player, holds an 'Empty'
\* entry and leaves a drafted player out
C10_Witness ==
    /\ input_mode = "Listing"
    /\ Len(slots) >= 3
    /\ \E e \in DOMAIN filled_slots : filled_slots[e][2] = EmptyName
    /\ \E e \in DOMAIN filled_slots : filled_slots[e][2] # EmptyName
    /\ \E i \in DOMAIN my_players :
          \A e \in DOMAIN filled_slots : filled_slots[e][2] # my_players[i]


-----------------------------------------------------------------------------
(* Position::does_position_belong on drawn inputs: a catalog of one player *)
(* holding one position value and a group are drawn (serde accepts each of *)
(* the ten values as a player's position); the filter, applied by the Idle *)
(* handler that enters Searching and by left and right, shows the player   *)
(* exactly when the position belongs to the group.                         *)

InitBelongs ==
    /\ all_players \in { << Player(<< "x" >>, << p >>) >> : p \in Positions }
    /\ selected_position \in Positions
    /\ input = << >>
    /\ my_players = << >>
    /\ other_players = << >>
    /\ my_file = Missing
    /\ other_file = Missing
    /\ input_mode = "Idle"
    /\ filtered_players = << >>
    /\ selected_player = None
    /\ candidate_player = << >>
    /\ status = "running"
    /\ slots = App_slots
    /\ filled_slots = << >>

NextBelongs == IdleStartSearch \/ KeyRight \/ KeyLeft

SpecBelongs == InitBelongs /\ [][NextBelongs]_vars

\* the static eligibility table: concrete position -> the groups it satisfies
BelongsTable ==
    [ PG |-> {"PG", "G", "SHORT", "ANY"},
      SG |-> {"SG", "G", "SHORT", "ANY"},
      SF |-> {"SF", "F", "TALL", "ANY"},
      PF |-> {"PF", "F", "TALL", "ANY"},
      C  |-> {"C", "TALL", "ANY"} ]

InTable(p, g) == p \in DOMAIN BelongsTable /\ g \in BelongsTable[p]

\* C11: belongs(p, g) is true exactly for the pairs of the static table and
\* false for every other pair of the ten position values, the pairs whose
\* first argument is F, G, TALL, SHORT or ANY included; the one player of
\* the catalog is shown exactly when his position is in the table's row.
C11_BelongsTable ==
    input_mode = "Searching" =>
        LET p == all_players[1].position[1]
            g == selected_position
        IN  /\ does_position_belong(p, g) <=> InTable(p, g)
            /\ does_position_belong(g, p) <=> InTable(g, p)
            /\ filtered_players # << >> <=> InTable(p, g)

\* a player stored with the query-only group F is not shown for the group F
C11_Witness ==
    /\ input_mode = "Searching"
    /\ all_players[1].position[1] = "F"
    /\ selected_position = "F"
    /\ filtered_players = << >>

-----------------------------------------------------------------------------
(* Further properties of the draft state machine, checked under Spec *)

\* the ring of the ten groups, in the order of right moves
RingOrder == << "ANY", "PG", "SG", "SF", "PF", "C", "F", "G", "TALL", "SHORT" >>
RingIndex(p) == CHOOSE i \in DOMAIN RingOrder : RingOrder[i] = p
RingNext(p) == RingOrder[(RingIndex(p) % Len(RingOrder)) + 1]

RECURSIVE RightTimes(_, _)
RightTimes(p, n) == IF n = 0 THEN p ELSE RightTimes(RightOf(p), n - 1)
RECURSIVE LeftTimes(_, _)
LeftTimes(p, n) == IF n = 0 THEN p ELSE LeftTimes(LeftOf(p), n - 1)

\* C12: group navigation is the ring ANY, PG, SG, SF, PF, C, F, G, TALL,
\* SHORT: a right event moves to the next group of the ring and a left event
\* to the previous one; from ANY, 10 rights return to ANY and 10 lefts return
\* to ANY; from every group left then right, and right then left, restore it.
C12_GroupRing ==
    /\ [](/\ RightTimes("ANY", 10) = "ANY"
          /\ LeftTimes("ANY", 10) = "ANY"
          /\ \A n \in 1 .. 9 : RightTimes("ANY", n) # "ANY" /\ LeftTimes("ANY", n) # "ANY"
          /\ RightOf(LeftOf(selected_position)) = selected_position
          /\ LeftOf(RightOf(selected_position)) = selected_position)
    /\ [][ /\ KeyRight => selected_position' = RingNext(selected_position)
           /\ KeyLeft => selected_position = RingNext(selected_position')
         ]_vars

\* the group reached from ANY by one left, or nine rights, while a candidate is pending
C12_Witness ==
    /\ selected_position = "SHORT"
    /\ input_mode = "Picking"


\* filtered_players holds, in catalog order, the first up to 8 of the players
\* that the current query, group and rosters admit
FilteredIsShown ==
    /\ Len(filtered_players) = Min(8, Cardinality(Shown))
    /\ \A k \in DOMAIN filtered_players :
          \E i \in Shown :
             /\ Cardinality({ j \in Shown : j < i }) = k - 1
             /\ filtered_players[k] = all_players[i].name

\* C13: cancel in Searching moves to Idle with query empty, candidate empty,
\* selection none and the filtered list recomputed; cancel in Picking moves
\* to Searching with the candidate discarded, query empty, selection none and
\* the filtered list recomputed; in both cases the two roster lists and the
\* two persisted files are unchanged.
C13_Cancel ==
    [][ /\ SearchingEsc => input_mode' = "Idle"
        /\ PickingEsc => input_mode' = "Searching"
        /\ (SearchingEsc \/ PickingEsc) =>
              /\ input' = << >>
              /\ candidate_player' = << >>
              /\ selected_player' = None
              /\ FilteredIsShown'
              /\ UNCHANGED << my_players, other_players, my_file, other_file >>
      ]_vars

\* Idle after two picks of this session: the search that made them was
\* cancelled, the rosters and the file kept, and the list is the recomputed one
C13_Witness ==
    /\ input_mode = "Idle"
    /\ Len(my_players) >= 2
    /\ input = << >> /\ candidate_player = << >> /\ selected_player = None
    /\ filtered_players # << >> /\ FilteredIsShown
    /\ my_file = Valid(my_players)

\* the states of the scenario: one player "Joe Smith" [PG], nobody drafted
JoeUndrafted ==
    /\ all_players = JoeCatalog
    /\ my_players = << >> /\ other_players = << >>
    /\ selected_position = "ANY"
JoeIdle ==
    JoeUndrafted /\ input_mode = "Idle" /\ input = << >>
JoeSearching ==
    /\ JoeUndrafted /\ input_mode = "Searching" /\ input = << >>
    /\ filtered_players = << JoeSmith >>
JoeLockedIn ==
    /\ JoeUndrafted /\ input_mode = "Searching" /\ input = JoeSmith
    /\ selected_player = Some(0)
    /\ filtered_players = << JoeSmith >>
JoePicking ==
    JoeUndrafted /\ input_mode = "Picking" /\ candidate_player = JoeSmith
JoeDrafted ==
    /\ all_players = JoeCatalog
    /\ my_players = << JoeSmith >> /\ other_players = << >>
    /\ input_mode = "Searching" /\ input = << >>
    /\ my_file = Valid(<< JoeSmith >>)

\* C14: with the catalog of one player "Joe Smith" [PG], empty rosters, empty
\* query and group ANY, start-search gives the filtered list [Joe Smith] in
\* Searching; tab then gives query "Joe Smith" and selection 0; confirm then
\* gives Picking with candidate "Joe Smith"; assign-mine, its write done,
\* then gives mine = [Joe Smith], Searching, query empty and the 'mine' file
\* holding exactly [Joe Smith].
C14_JoeScenario ==
    [][ /\ (JoeIdle /\ IdleStartSearch) => JoeSearching'
        /\ (JoeSearching /\ SearchingTab) => JoeLockedIn'
        /\ (JoeLockedIn /\ SearchingEnter) => JoePicking'
        /\ (JoePicking /\ PickingAssignMine /\ status' = "running") => JoeDrafted'
      ]_vars

\* the end of the scenario, the first 'mine' file of the directory written
C14_Witness ==
    /\ JoeDrafted
    /\ other_file = Missing
    /\ filtered_players = << >>
    /\ selected_player = None /\ candidate_player = << >>


\* C15: a digit event n in Searching locks in the n-th (1-based) entry of the
\* filtered list exactly when 1 <= n <= length of the list; every other
\* digit, 0 and those beyond the length included, is ignored: it raises no
\* error and leaves the whole draft state unchanged.
C15_DigitIgnoredOrLocksIn ==
    [][ SearchingDigit =>
           /\ status' = "running"
           /\ \/ UNCHANGED vars
              \/ \E n \in 1 .. Len(filtered_players) :
                    /\ input' = filtered_players[n]
                    /\ selected_player' = Some(0)
                    /\ UNCHANGED << input_mode, candidate_player, selected_position,
                                    my_players, other_players, my_file, other_file >>
      ]_vars

\* C16: in Searching with an empty filtered list a move-down event is a no-op,
\* whether or not a selection is present: no error, and selection, query,
\* filtered list, mode and rosters unchanged; with a non-empty list move-down
\* never sets the selection beyond the last valid index and move-up never
\* sets it below 0.
C16_MoveDownOnEmptyList ==
    [][ /\ (SearchingDown /\ filtered_players = << >>) =>
              /\ status' = "running"
              /\ UNCHANGED << selected_player, input, filtered_players, input_mode,
                              my_players, other_players >>
        /\ (SearchingDown /\ filtered_players # << >> /\ selected_player' # selected_player) =>
              /\ selected_player' # None
              /\ selected_player'[1] <= Len(filtered_players) - 1
        /\ (SearchingUp /\ selected_player' # selected_player) =>
              /\ selected_player' # None
              /\ selected_player'[1] >= 0
      ]_vars


\* C17: in every state whose mode is Searching or Picking the stored filtered
\* list equals the filter function applied to the current query, the current
\* group and the current two rosters: the first up to 8 players, in catalog
\* order, that they admit (a state of the aborted process is no such state).
C17_FilterNeverStale ==
    (Alive /\ input_mode \in {"Searching", "Picking"}) =>
        /\ filtered_players =
               filter_players(all_players, input, my_players, other_players,
                              selected_position)
        /\ FilteredIsShown

\* the group was changed while a candidate was pending, after a pick changed
\* a roster, and the list is the one of the locked query under the new group
C17_Witness ==
    /\ input_mode = "Picking"
    /\ selected_position \notin {"ANY", "PG"}
    /\ my_players # << >> /\ my_file = Valid(my_players)
    /\ input # << >>
    /\ filtered_players # << >>
    /\ Cardinality(Shown) < Len(all_players) - Len(my_players)

\* C18: tab in Searching with a non-empty filtered list sets the query to the
\* name of the former first entry and the selection to 0, and the recomputed
\* list is non-empty with that same player at index 0, so that an immediate
\* confirm makes exactly that player the candidate; with an empty filtered
\* list tab changes nothing (player names are unique in every catalog).
C18_TabLocksFirst ==
    [][ /\ (SearchingTab /\ filtered_players # << >>) =>
              /\ input' = filtered_players[1]
              /\ selected_player' = Some(0)
              /\ filtered_players' # << >>
              /\ filtered_players'[1] = filtered_players[1]
              /\ \A n \in FilteredNames' : n \in FilteredNames
              /\ UNCHANGED << input_mode, candidate_player, status >>
        /\ (SearchingTab /\ filtered_players = << >>) => UNCHANGED vars
        /\ (SearchingEnter /\ selected_player = Some(0) /\ filtered_players # << >>) =>
              /\ input_mode' = "Picking"
              /\ candidate_player' = filtered_players[1]
      ]_vars

\* after tab on a list whose first name is a part of the second: both still
\* listed, the locked player first
C18_Witness ==
    /\ input_mode = "Searching"
    /\ NoDuplicates([ i \in DOMAIN all_players |-> all_players[i].name ])
    /\ Len(filtered_players) = 2
    /\ input = filtered_players[1]
    /\ selected_player = Some(0)
    /\ MatchesQuery(filtered_players[2], input)

\* C19: after a digit-n lock-in in Searching with 1 <= n <= length of the
\* filtered list, the recomputed list has the n-th entry of the former list
\* under the selection, so that an immediately following confirm enters
\* Picking with that name as candidate, for every catalog of uniquely named
\* players, those with one name a substring of another included.
C19_DigitThenConfirm ==
    [][ /\ (SearchingDigit /\ status' = "running") =>
              \A n \in 1 .. Len(filtered_players) :
                  (input' = filtered_players[n] /\ selected_player' = Some(0)) =>
                      /\ Len(filtered_players') > selected_player'[1]
                      /\ filtered_players'[selected_player'[1] + 1] = filtered_players[n]
        /\ (SearchingEnter /\ selected_player # None
                /\ selected_player[1] < Len(filtered_players)) =>
              /\ input_mode' = "Picking"
              /\ candidate_player' = filtered_players[selected_player[1] + 1]
      ]_vars

\* C20: in every state the candidate is non-empty if and only if the mode is
\* Picking, and in Picking the candidate is the name of a catalog player that
\* is in neither the 'mine' nor the 'other's' list, also after left and right
\* events received while Picking (a state of the aborted process is no such
\* state).
C20_CandidateIffPicking ==
    Alive =>
        /\ candidate_player # << >> <=> input_mode = "Picking"
        /\ input_mode = "Picking" =>
              /\ \E i \in DOMAIN all_players : all_players[i].name = candidate_player
              /\ candidate_player \notin Names(my_players) \cup Names(other_players)

\* a candidate pending under a group that does not admit him, both rosters
\* holding other players
C20_Witness ==
    /\ input_mode = "Picking"
    /\ candidate_player \notin Names(filtered_players)
    /\ selected_position # "ANY"
    /\ my_players # << >> /\ other_players # << >>
    /\ my_file = Valid(my_players)


\* the draft state: every field of App and both roster files
Draft ==
    << input, input_mode, filtered_players, selected_player, candidate_player,
       selected_position, my_players, other_players, my_file, other_file, all_players >>

\* C21: in every state whose mode is Idle or Listing the query text is empty
\* and the selection cursor is none; and in Listing no event other than left
\* and right, which change the group and the filtered list, and exit-listing,
\* which changes the mode, changes any part of the draft state.
C21_IdleAndListing ==
    /\ []((Alive /\ input_mode \in {"Idle", "Listing"}) =>
              (input = << >> /\ selected_player = None))
    /\ [][ input_mode = "Listing" =>
              \/ UNCHANGED Draft
              \/ /\ KeyRight \/ KeyLeft
                 /\ UNCHANGED << input, input_mode, selected_player, candidate_player,
                                 my_players, other_players, my_file, other_file,
                                 all_players, status >>
                 /\ FilteredIsShown'
              \/ /\ ListingQuit
                 /\ input_mode' = "Idle"
                 /\ UNCHANGED << input, filtered_players, selected_player,
                                 candidate_player, selected_position, my_players,
                                 other_players, my_file, other_file, all_players, status >>
         ]_vars

\* Listing after two picks of this session, the group changed: the query and
\* the cursor of the searches are gone and the list is the one of the group
C21_Witness ==
    /\ input_mode = "Listing"
    /\ Len(my_players) >= 2
    /\ selected_position \notin {"ANY", "TALL"}
    /\ filtered_players # << >>
    /\ input = << >> /\ selected_player = None /\ candidate_player = << >>
    /\ filled_slots # << >>


-----------------------------------------------------------------------------
(* The report for the default slots, checked under SpecSlots *)

\* the group column of the report for C x3, PF x1, PG x1, SG x1, SF x1, G x1,
\* F x1, ANY x7
DefaultGroups ==
    << "C", "C", "C", "PF", "PG", "SG", "SF", "G", "F",
       "ANY", "ANY", "ANY", "ANY", "ANY", "ANY", "ANY" >>

\* C22: for every 'mine' list of catalog players the slot report for the
\* default slots has exactly 16 entries, grouped in slot order with exactly
\* capacity-many entries per slot group; every entry that is not 'Empty'
\* names a drafted player who has a concrete position belonging to the
\* entry's group, and no drafted name occurs in more than one entry.
C22_DefaultReport ==
    (input_mode = "Listing" /\ slots = App_slots) =>
        /\ Len(filled_slots) = 16
        /\ [e \in DOMAIN filled_slots |-> filled_slots[e][1]] = DefaultGroups
        /\ \A e \in DOMAIN filled_slots :
              filled_slots[e][2] # EmptyName =>
                  /\ filled_slots[e][2] \in Names(my_players)
                  /\ \E i \in DOMAIN all_players :
                        /\ all_players[i].name = filled_slots[e][2]
                        /\ \E k \in DOMAIN all_players[i].position :
                               InTable(all_players[i].position[k], filled_slots[e][1])
        /\ \A n \in Names(my_players) :
              Cardinality({ e \in DOMAIN filled_slots : filled_slots[e][2] = n }) <= 1

\* three drafted power forwards: one in the PF slot, one in the F slot, one
\* in an ANY slot, the other thirteen entries 'Empty'
C22_Witness ==
    /\ input_mode = "Listing" /\ slots = App_slots
    /\ Len(my_players) = 3
    /\ filled_slots[4][2] # EmptyName
    /\ filled_slots[9][2] # EmptyName
    /\ filled_slots[10][2] # EmptyName
    /\ Cardinality({ e \in DOMAIN filled_slots : filled_slots[e][2] = EmptyName }) = 13

====
